---------------------------- MODULE Spec2Model ----------------------------
(***************************************************************************)
(* Model of computeBPE, the BPE trainer embedded in the BPEPlayground      *)
(* component (src/src/components/BPEPlayground.tsx).                       *)
(*                                                                         *)
(* A JavaScript string is modelled as a sequence of one-character strings, *)
(* so that length, concatenation, includes, startsWith, substring and      *)
(* split behave as they do in the source.  A token is such a string; a     *)
(* token list is a sequence of them.  null is the empty tuple <<>>.        *)
(* A quotient of two lengths (a JavaScript number) is kept as the pair     *)
(* <<numerator, denominator>>; a zero denominator stands for NaN/Infinity. *)
(***************************************************************************)
EXTENDS Integers, Sequences, FiniteSets, TLC

VARIABLES text, maxVocabSize, model,
          pc, uniqueChars, maxIterations, iter,
          currentTokens, currentVocabulary, mergingRules, steps, result,
          previous,
          currentStep, isAnimating, timers, effectPending

\* the playback state of the component around computeBPE
playback == <<currentStep, isAnimating, timers, effectPending>>

vars == <<text, maxVocabSize, model, pc, uniqueChars, maxIterations, iter,
          currentTokens, currentVocabulary, mergingRules, steps, result,
          previous, playback>>

---------------------------------------------------------------------------
(* String primitives                                                       *)

\* String.prototype.includes
Includes(s, sub) ==
  \E i \in 0..(Len(s) - Len(sub)) : SubSeq(s, i + 1, i + Len(sub)) = sub

\* String.prototype.startsWith
StartsWith(s, p) == Len(s) >= Len(p) /\ SubSeq(s, 1, Len(p)) = p

\* String.prototype.substring(n)
Substring(s, n) == SubSeq(s, n + 1, Len(s))

\* String.prototype.indexOf, 1-based; 0 when sub does not occur
IndexOf(s, sub) ==
  LET hits == {i \in 1..(Len(s) - Len(sub) + 1) : SubSeq(s, i, i + Len(sub) - 1) = sub}
  IN  IF hits = {} THEN 0 ELSE CHOOSE i \in hits : \A j \in hits : i <= j

\* [...new Set(xs)]: the distinct elements of xs in first-seen order
RECURSIVE Distinct(_, _)
Distinct(xs, seen) ==
  IF xs = <<>> THEN <<>>
  ELSE IF Head(xs) \in seen THEN Distinct(Tail(xs), seen)
  ELSE <<Head(xs)>> \o Distinct(Tail(xs), seen \cup {Head(xs)})

\* Array.prototype.concat over a list of lists
RECURSIVE Flatten(_)
Flatten(xss) == IF xss = <<>> THEN <<>> ELSE Head(xss) \o Flatten(Tail(xss))

\* the sum of the lengths of the strings of a list (reduce at the statistics)
RECURSIVE SumLen(_)
SumLen(xs) == IF xs = <<>> THEN 0 ELSE Len(Head(xs)) + SumLen(Tail(xs))

Min(a, b) == IF a <= b THEN a ELSE b

\* const x = v, then an expression e of x, is written Only({e : x \in {v}}):
\* v is worked out once and e is taken at its value
Only(S) == CHOOSE r \in S : TRUE

---------------------------------------------------------------------------
(* Character classes of the regular expressions                            *)

UpperCase == <<"A", "B", "C", "D", "E", "F", "G", "H", "I", "J", "K", "L", "M",
               "N", "O", "P", "Q", "R", "S", "T", "U", "V", "W", "X", "Y", "Z">>
LowerCase == <<"a", "b", "c", "d", "e", "f", "g", "h", "i", "j", "k", "l", "m",
               "n", "o", "p", "q", "r", "s", "t", "u", "v", "w", "x", "y", "z">>
Digits == {"0", "1", "2", "3", "4", "5", "6", "7", "8", "9"}

\* \s
IsSpace(c) == c \in {" ", "\t", "\n"}

\* \w
IsWordChar(c) ==
  \/ \E i \in 1..26 : c = UpperCase[i] \/ c = LowerCase[i]
  \/ c \in Digits
  \/ c = "_"

\* String.prototype.toLowerCase, one character
LowerChar(c) ==
  IF \E i \in 1..26 : c = UpperCase[i]
  THEN LowerCase[CHOOSE i \in 1..26 : c = UpperCase[i]]
  ELSE c

ToLowerCase(s) == [i \in 1..Len(s) |-> LowerChar(s[i])]

\* s.replace(/\s+/g, rep)
RECURSIVE ReplaceSpaceRuns(_, _, _)
ReplaceSpaceRuns(s, rep, inRun) ==
  IF s = <<>> THEN <<>>
  ELSE IF IsSpace(Head(s))
       THEN (IF inRun THEN <<>> ELSE rep) \o ReplaceSpaceRuns(Tail(s), rep, TRUE)
       ELSE <<Head(s)>> \o ReplaceSpaceRuns(Tail(s), rep, FALSE)

ReplaceNonWordRemoved(s) == SelectSeq(s, LAMBDA c : IsWordChar(c) \/ IsSpace(c))

\* s.replace(/[^\w\s]/g, " ")
ReplaceNonWord(s) ==
  [i \in 1..Len(s) |-> IF IsWordChar(s[i]) \/ IsSpace(s[i]) THEN s[i] ELSE " "]

\* String.prototype.trim
RECURSIVE TrimStart(_)
TrimStart(s) ==
  IF s # <<>> /\ IsSpace(Head(s)) THEN TrimStart(Tail(s)) ELSE s

RECURSIVE TrimEnd(_)
TrimEnd(s) ==
  IF s # <<>> /\ IsSpace(s[Len(s)]) THEN TrimEnd(SubSeq(s, 1, Len(s) - 1)) ELSE s

Trim(s) == Only({TrimEnd(trimmed) : trimmed \in {TrimStart(s)}})

\* the SentencePiece word separator U+2581
SPSep == "_U2581"

\* s.replace(/^▁/, "")
StripLeadingSep(s) == IF s # <<>> /\ Head(s) = SPSep THEN Tail(s) ELSE s

RECURSIVE SplitWordsKeepingEmpty(_, _)
SplitWordsKeepingEmpty(s, cur) ==
  IF s = <<>> THEN <<cur>>
  ELSE IF IsSpace(Head(s))
       THEN <<cur>> \o SplitWordsKeepingEmpty(TrimStart(s), <<>>)
       ELSE SplitWordsKeepingEmpty(Tail(s), Append(cur, Head(s)))

\* s.split(/\s+/).filter((word) => word.length > 0)
RECURSIVE SplitWords(_, _)
SplitWords(s, cur) ==
  IF s = <<>> THEN (IF cur = <<>> THEN <<>> ELSE <<cur>>)
  ELSE IF IsSpace(Head(s))
       THEN (IF cur = <<>> THEN <<>> ELSE <<cur>>) \o SplitWords(Tail(s), <<>>)
       ELSE SplitWords(Tail(s), Append(cur, Head(s)))

---------------------------------------------------------------------------
(* The model catalogue                                                     *)

EndOfWord == <<"<", "/", "w", ">">>
Continuation == <<"#", "#">>
KeySep == <<"|", "|", "|">>

NameGPT2 == <<"G", "P", "T", "-", "2">>
NameGPT4 == <<"G", "P", "T", "-", "4">>
NameBERT == <<"B", "E", "R", "T">>
NameT5 == <<"T", "5", "/", "S", "e", "n", "t", "e", "n", "c", "e", "P", "i", "e", "c", "e">>
NameLLaMA == <<"L", "L", "a", "M", "A">>
NameCustom == <<"C", "u", "s", "t", "o", "m">>

TOKENIZER_MODELS == <<
  [name |-> NameGPT2, vocabSize |-> 50257,
   specialTokens |-> << <<"<", "|", "e", "n", "d", "o", "f", "t", "e", "x", "t", "|", ">">> >>],
  [name |-> NameGPT4, vocabSize |-> 100256,
   specialTokens |-> << <<"<", "|", "e", "n", "d", "o", "f", "t", "e", "x", "t", "|", ">">>,
                        <<"<", "|", "f", "i", "m", "_", "p", "r", "e", "f", "i", "x", "|", ">">>,
                        <<"<", "|", "f", "i", "m", "_", "m", "i", "d", "d", "l", "e", "|", ">">>,
                        <<"<", "|", "f", "i", "m", "_", "s", "u", "f", "f", "i", "x", "|", ">">> >>],
  [name |-> NameBERT, vocabSize |-> 30522,
   specialTokens |-> << <<"[", "C", "L", "S", "]">>, <<"[", "S", "E", "P", "]">>,
                        <<"[", "P", "A", "D", "]">>, <<"[", "U", "N", "K", "]">>,
                        <<"[", "M", "A", "S", "K", "]">> >>],
  [name |-> NameT5, vocabSize |-> 32128,
   specialTokens |-> << <<"<", "p", "a", "d", ">">>, <<"<", "/", "s", ">">>,
                        <<"<", "u", "n", "k", ">">>,
                        <<"<", "e", "x", "t", "r", "a", "_", "i", "d", "_", "0", ">">> >>],
  [name |-> NameLLaMA, vocabSize |-> 32000,
   specialTokens |-> << <<"<", "s", ">">>, <<"<", "/", "s", ">">>, <<"<", "u", "n", "k", ">">> >>],
  [name |-> NameCustom, vocabSize |-> 1000,
   specialTokens |-> << EndOfWord >>] >>

Models == {TOKENIZER_MODELS[i] : i \in 1..Len(TOKENIZER_MODELS)}

IsGPT(m) == Includes(m.name, <<"G", "P", "T">>)
IsBERT(m) == m.name = NameBERT
IsT5(m) == Includes(m.name, <<"T", "5">>)
IsLLaMA(m) == Includes(m.name, NameLLaMA)

---------------------------------------------------------------------------
(* Preprocessing and the initial tokens                                    *)

\* s.replace(/\s+/g, " ").trim()
SingleSpaced(s) == Only({Trim(spaced) : spaced \in {ReplaceSpaceRuns(s, <<" ">>, FALSE)}})

\* s.toLowerCase().replace(/[^\w\s]/g, " ")
LowerWords(s) == Only({ReplaceNonWord(lower) : lower \in {ToLowerCase(s)}})

ProcessedText(t, m) ==
  IF IsGPT(m) THEN SingleSpaced(t)
  ELSE IF IsBERT(m)
       THEN Only({SingleSpaced(clean) : clean \in {LowerWords(t)}})
  ELSE IF IsT5(m) \/ IsLLaMA(m)
       THEN Only({StripLeadingSep(joined) : joined \in {ReplaceSpaceRuns(t, <<SPSep>>, FALSE)}})
  ELSE t

Words(t, m) ==
  Only({SplitWords(processedText, <<>>) : processedText \in {ProcessedText(t, m)}})

WordTokensAllMarked(word, m) ==
  IF IsBERT(m)
  THEN [i \in 1..Len(word) |-> Continuation \o <<word[i]>>]
  ELSE IF IsT5(m)
       THEN [i \in 1..Len(word) |-> <<word[i]>>]
       ELSE [i \in 1..Len(word) |-> <<word[i]>>] \o <<EndOfWord>>

WordTokensSpecialMarker(word, m) ==
  IF IsBERT(m)
  THEN [i \in 1..Len(word) |-> IF i = 1 THEN <<word[i]>> ELSE Continuation \o <<word[i]>>]
  ELSE IF IsT5(m)
       THEN [i \in 1..Len(word) |-> <<word[i]>>]
       ELSE [i \in 1..Len(word) |-> <<word[i]>>] \o <<m.specialTokens[1]>>

\* the body of words.forEach: the tokens of one word
WordTokens(word, m) ==
  IF IsBERT(m)
  THEN [i \in 1..Len(word) |-> IF i = 1 THEN <<word[i]>> ELSE Continuation \o <<word[i]>>]
  ELSE IF IsT5(m)
       THEN [i \in 1..Len(word) |-> <<word[i]>>]
       ELSE [i \in 1..Len(word) |-> <<word[i]>>] \o <<EndOfWord>>

\* the tokens of each word, by word
TokensByWord(words, m) == [i \in 1..Len(words) |-> WordTokens(words[i], m)]

InitialTokens(t, m) ==
  Only({Only({Flatten(byWord) : byWord \in {TokensByWord(words, m)}}) :
          words \in {Words(t, m)}})

IsPlainChar(tk) == ~Includes(tk, EndOfWord) /\ ~Includes(tk, Continuation)

UniqueCharsUnfiltered(tokens) == Distinct(tokens, {})

\* [...new Set(tokens.filter((t) => !t.includes("</w>") && !t.includes("##")))]
UniqueChars(tokens) ==
  Only({Distinct(chars, {}) : chars \in {SelectSeq(tokens, IsPlainChar)}})

InitialVocabulary(tokens, m) == UniqueChars(tokens) \o m.specialTokens

---------------------------------------------------------------------------
(* One iteration of the merge loop                                         *)

\* `${currentTokens[i]}|||${currentTokens[i + 1]}`
PairKey(a, b) == a \o KeySep \o b

\* the keys of the adjacent pairs, by position
AdjacentKeys(tokens) ==
  [i \in 1..(Len(tokens) - 1) |-> PairKey(tokens[i], tokens[i + 1])]

\* pairCounts: a Map iterates in insertion order, so it is the list of its
\* entries in the order the keys were first set
CountEntries(keys, order) ==
  [k \in 1..Len(order) |->
     [key |-> order[k],
      freq |-> Cardinality({i \in 1..Len(keys) : keys[i] = order[k]})]]

PairCounts(tokens) ==
  Only({Only({CountEntries(keys, order) : order \in {Distinct(keys, {})}}) :
          keys \in {AdjacentKeys(tokens)}})

\* const [first, second] = pair.split("|||"): the text before the first
\* separator, and the text between the first and the second separator
SplitKey(key) ==
  LET i == IndexOf(key, KeySep)
      rest == SubSeq(key, i + Len(KeySep), Len(key))
      j == IndexOf(rest, KeySep)
  IN  <<SubSeq(key, 1, i - 1), IF j = 0 THEN rest ELSE SubSeq(rest, 1, j - 1)>>

\* the length compared against pair.length in the tie-break
BestLength(best) == IF best = <<>> THEN 0 ELSE Len(best[1] \o best[2])

ReplacesOnTie(entry, best, maxFreq) == entry.freq >= maxFreq

\* the condition under which an entry replaces the pair selected so far
Replaces(entry, best, maxFreq) ==
  \/ entry.freq > maxFreq
  \/ entry.freq = maxFreq /\ Len(entry.key) < BestLength(best)

\* the scan over pairCounts.entries()
RECURSIVE SelectPair(_, _, _)
SelectPair(entries, best, maxFreq) ==
  IF entries = <<>> THEN [mostFrequentPair |-> best, maxFreq |-> maxFreq]
  ELSE IF Replaces(Head(entries), best, maxFreq)
       THEN SelectPair(Tail(entries), SplitKey(Head(entries).key), Head(entries).freq)
       ELSE SelectPair(Tail(entries), best, maxFreq)

MostFrequent(tokens) ==
  Only({SelectPair(pairCounts, <<>>, 0) : pairCounts \in {PairCounts(tokens)}})

NewTokenKeepingMarker(pair, m) == pair[1] \o pair[2]

\* the new token of a merge
NewToken(pair, m) ==
  IF IsBERT(m) /\ StartsWith(pair[2], Continuation)
  THEN pair[1] \o Substring(pair[2], 2)
  ELSE pair[1] \o pair[2]

RECURSIVE MergeTokensOverlapping(_, _, _)
MergeTokensOverlapping(tokens, pair, newToken) ==
  IF tokens = <<>> THEN <<>>
  ELSE IF Len(tokens) > 1 /\ tokens[1] = pair[1] /\ tokens[2] = pair[2]
       THEN <<newToken>> \o MergeTokensOverlapping(Tail(tokens), pair, newToken)
       ELSE <<Head(tokens)>> \o MergeTokensOverlapping(Tail(tokens), pair, newToken)

MergeTokensFirstOnly(tokens, pair, newToken) ==
  LET hits == {i \in 1..(Len(tokens) - 1) : tokens[i] = pair[1] /\ tokens[i + 1] = pair[2]}
  IN  IF hits = {} THEN tokens
      ELSE LET i == CHOOSE h \in hits : \A g \in hits : h <= g
           IN  SubSeq(tokens, 1, i - 1) \o <<newToken>> \o SubSeq(tokens, i + 2, Len(tokens))

\* the merge scan: i runs over the tokens, skipping the second of a merged pair
RECURSIVE MergeTokens(_, _, _)
MergeTokens(tokens, pair, newToken) ==
  IF tokens = <<>> THEN <<>>
  ELSE IF Len(tokens) > 1 /\ tokens[1] = pair[1] /\ tokens[2] = pair[2]
       THEN <<newToken>> \o MergeTokens(Tail(Tail(tokens)), pair, newToken)
       ELSE <<Head(tokens)>> \o MergeTokens(Tail(tokens), pair, newToken)

PushTokenGuarded(vocabulary, newToken) ==
  IF \E i \in 1..Len(vocabulary) : vocabulary[i] = newToken
  THEN vocabulary
  ELSE Append(vocabulary, newToken)

\* currentVocabulary.push(newToken)
PushToken(vocabulary, newToken) == Append(vocabulary, newToken)

TooRareBelowOne(sel) == sel.mostFrequentPair = <<>> \/ sel.maxFreq < 1

\* the test of: if (!mostFrequentPair || maxFreq < 2) break
TooRare(sel) == sel.mostFrequentPair = <<>> \/ sel.maxFreq < 2

PushRuleFront(rules, pair, newToken) ==
  <<[pair |-> pair, newToken |-> newToken]>> \o rules

\* mergingRules.push({ pair: mostFrequentPair, newToken })
PushRule(rules, pair, newToken) == Append(rules, [pair |-> pair, newToken |-> newToken])

\* what steps.push would leave behind if the step held currentVocabulary and
\* mergingRules themselves instead of copies: every step pushed by the loop
\* shows the arrays as they are now
PushStepSharingArrays(ss, step) ==
  [j \in 1..(Len(ss) + 1) |->
     IF j = Len(ss) + 1 THEN step
     ELSE IF j = 1 THEN ss[j]
     ELSE [ss[j] EXCEPT !.vocabulary = step.vocabulary,
                        !.mergingRules = step.mergingRules]]

\* steps.push({ ..., vocabulary: [...currentVocabulary], mergedTokens:
\* [...currentTokens], mergingRules: [...mergingRules], ... }): the step holds
\* copies, so the steps pushed before are left as they are
PushStep(ss, step) == Append(ss, step)

NextIterationSkipping(i) == i + 2

\* iter++
NextIteration(i) == i + 1

\* text.length / tokens.length
Ratio(t, tokens) == <<Len(t), Len(tokens)>>

---------------------------------------------------------------------------
(* Inputs                                                                  *)

MaxLen == 5
MaxVocabSize == 9
MAX_ITERATIONS == 100

Alphabet == {"a", "b", "|", " "}

Texts == UNION {[1..n -> Alphabet] : n \in 0..MaxLen}

ModelNamed(n) == CHOOSE m \in Models : m.name = n

\* calls beyond the exhaustive bounds: the documented example, a tie between
\* pairs of different lengths, the component's default vocabulary size, two
\* merges that produce the same text, a text that spells a special token, and
\* a text with upper case, punctuation and an underscore
Scenarios ==
  { [text |-> <<"l", "o", "w", " ", "l", "o", "w", "e", "r", " ", "n", "e", "w", "e",
                "s", "t", " ", "w", "i", "d", "e", "s", "t">>,
     model |-> ModelNamed(NameCustom), maxVocabSize |-> 20],
    [text |-> <<"a", " ", "a", "b", " ", "a", "b">>,
     model |-> ModelNamed(NameCustom), maxVocabSize |-> 20],
    [text |-> <<"|", "a", " ", "|", "a">>,
     model |-> ModelNamed(NameCustom), maxVocabSize |-> 1000],
    [text |-> <<"a", " ", "a", " ", "a", " ", "a", " ", "a", "a", " ", "a", "a">>,
     model |-> ModelNamed(NameBERT), maxVocabSize |-> 20],
    [text |-> <<"<", "s", ">", "<", "s", ">">>,
     model |-> ModelNamed(NameLLaMA), maxVocabSize |-> 20],
    [text |-> <<"A", "|", "b", "_", "c", " ", "D", "e">>,
     model |-> ModelNamed(NameBERT), maxVocabSize |-> 20] }

Inputs ==
  [text : Texts, model : Models, maxVocabSize : 1..MaxVocabSize] \cup Scenarios

---------------------------------------------------------------------------
(* computeBPE as a state machine                                           *)

\* result and previous hold at most one record: <<>> before the first return
NoResult == <<>>
NoCall == <<>>

MaxIterationsUncapped(budget, vocabulary) == budget - Len(vocabulary)

\* const maxIterations = Math.min(maxVocabSize - vocabulary.length, 100)
MaxIterations(budget, vocabulary) == Min(budget - Len(vocabulary), MAX_ITERATIONS)

StaleRules == mergingRules

\* const mergingRules = []: a fresh array in every call
InitialRules == <<>>

InitWith(inputs) ==
  /\ \E in \in inputs :
       /\ text = in.text
       /\ model = in.model
       /\ maxVocabSize = in.maxVocabSize
  /\ pc = "start"
  /\ uniqueChars = <<>>
  /\ maxIterations = 0
  /\ iter = 0
  /\ currentTokens = <<>>
  /\ currentVocabulary = <<>>
  /\ mergingRules = <<>>
  /\ steps = <<>>
  /\ result = NoResult
  /\ previous = NoCall
  /\ currentStep = 0
  /\ isAnimating = FALSE
  /\ timers = {}
  /\ effectPending = FALSE

Init == InitWith(Inputs)

\* preprocessing, the initial tokens and vocabulary, and the initial step
Prepare ==
  /\ pc = "start"
  /\ \E tokens \in {InitialTokens(text, model)} :
     \E vocabulary \in {InitialVocabulary(tokens, model)} :
         /\ uniqueChars' = UniqueChars(tokens)
         /\ steps' = << [iteration |-> 0,
                         mostFrequentPair |-> <<>>,
                         frequency |-> 0,
                         vocabulary |-> vocabulary,
                         mergedTokens |-> tokens,
                         compressionRatio |-> Ratio(text, tokens),
                         mergingRules |-> InitialRules,
                         pairFrequencies |-> <<>>] >>
         /\ currentTokens' = tokens
         /\ currentVocabulary' = vocabulary
         /\ maxIterations' = MaxIterations(maxVocabSize, vocabulary)
  /\ mergingRules' = InitialRules
  /\ iter' = 1
  /\ pc' = "loop"
  /\ UNCHANGED <<text, maxVocabSize, model, result, previous>>
  /\ UNCHANGED playback

LoopConditionTestedAfterBody ==
  iter = 1 \/ (iter <= maxIterations /\ Len(currentVocabulary) < maxVocabSize)

\* the for statement's condition
LoopCondition ==
  iter <= maxIterations /\ Len(currentVocabulary) < maxVocabSize

\* the condition is false: the loop ends
LoopEnd ==
  /\ pc = "loop"
  /\ ~LoopCondition
  /\ pc' = "return"
  /\ UNCHANGED <<text, maxVocabSize, model, uniqueChars, maxIterations, iter,
                 currentTokens, currentVocabulary, mergingRules, steps, result,
                 previous>>
  /\ UNCHANGED playback

\* if (pairCounts.size === 0) break
BreakNoPairs ==
  /\ pc = "loop"
  /\ LoopCondition
  /\ PairCounts(currentTokens) = <<>>
  /\ pc' = "return"
  /\ UNCHANGED <<text, maxVocabSize, model, uniqueChars, maxIterations, iter,
                 currentTokens, currentVocabulary, mergingRules, steps, result,
                 previous>>
  /\ UNCHANGED playback

\* if (!mostFrequentPair || maxFreq < 2) break
BreakLowFrequency ==
  /\ pc = "loop"
  /\ LoopCondition
  /\ PairCounts(currentTokens) # <<>>
  /\ TooRare(MostFrequent(currentTokens))
  /\ pc' = "return"
  /\ UNCHANGED <<text, maxVocabSize, model, uniqueChars, maxIterations, iter,
                 currentTokens, currentVocabulary, mergingRules, steps, result,
                 previous>>
  /\ UNCHANGED playback

\* one full iteration: select, merge, push the token, the rule and the step
MergeStep ==
  /\ pc = "loop"
  /\ LoopCondition
  /\ PairCounts(currentTokens) # <<>>
  /\ \E sel \in {MostFrequent(currentTokens)} :
     \E pair \in {sel.mostFrequentPair} :
       /\ ~TooRare(sel)
       /\ \E newToken \in {NewToken(pair, model)} :
          \E newTokens \in {MergeTokens(currentTokens, pair, newToken)} :
          \E newVocabulary \in {PushToken(currentVocabulary, newToken)} :
          \E newRules \in {PushRule(mergingRules, pair, newToken)} :
            /\ currentTokens' = newTokens
            /\ currentVocabulary' = newVocabulary
            /\ mergingRules' = newRules
            /\ steps' = PushStep(steps,
                                 [iteration |-> iter,
                                  mostFrequentPair |-> pair,
                                  frequency |-> sel.maxFreq,
                                  vocabulary |-> newVocabulary,
                                  mergedTokens |-> newTokens,
                                  compressionRatio |-> Ratio(text, newTokens),
                                  mergingRules |-> newRules,
                                  pairFrequencies |-> PairCounts(currentTokens)])
  /\ iter' = NextIteration(iter)
  /\ UNCHANGED <<text, maxVocabSize, model, pc, uniqueChars, maxIterations, result,
                 previous>>
  /\ UNCHANGED playback

LastStepIndexBeforeLast == Len(steps) - 2

LastStepIndexIsIter == iter

\* steps.length - 1, the (0-based) index of the step the statistics read
LastStepIndex == Len(steps) - 1

\* the final statistics and the returned object; reading a field of a step
\* that does not exist throws, and then nothing is returned
Return ==
  /\ pc = "return"
  /\ LastStepIndex \in 0..(Len(steps) - 1)
  /\ LET finalTokens == steps[LastStepIndex + 1].mergedTokens
         finalVocabulary == steps[LastStepIndex + 1].vocabulary
     IN  result' = << [finalTokens |-> finalTokens,
                    finalVocabulary |-> finalVocabulary,
                    statistics |->
                      [totalMerges |-> Len(steps) - 1,
                       finalCompressionRatio |-> Ratio(text, finalTokens),
                       uniqueChars |-> Len(uniqueChars),
                       averageTokenLength |-> <<SumLen(finalTokens), Len(finalTokens)>>,
                       vocabularyEfficiency |-> <<Len(finalVocabulary), maxVocabSize>>]] >>
  /\ pc' = "done"
  /\ UNCHANGED <<text, maxVocabSize, model, uniqueChars, maxIterations, iter,
                 currentTokens, currentVocabulary, mergingRules, steps, previous>>
  /\ UNCHANGED playback

Next ==
  \/ Prepare
  \/ LoopEnd
  \/ BreakNoPairs
  \/ BreakLowFrequency
  \/ MergeStep
  \/ Return

Spec == Init /\ [][Next]_vars

\* computeBPE is synchronous: once called it runs on until it returns or
\* throws, so a step that can be taken is taken
SpecLive == Spec /\ WF_vars(Next)


---------------------------------------------------------------------------
(* Repeated calls: the component calls computeBPE again whenever its text, *)
(* vocabulary size or model changes.  The locals of the new call hold      *)
(* whatever the last call left until the new call assigns them.            *)

DetTexts ==
  { <<>>,
    <<"a", "a", "a", "a">>,
    <<"|", "a", "|", "a">>,
    <<"a", "b", " ", "a", "b">>,
    <<"a", " ", "a", " ", "a">> }

DetInputs ==
  [text : DetTexts, model : Models, maxVocabSize : {MaxVocabSize}] \cup Scenarios

Recompute ==
  /\ pc = "done"
  /\ previous' = << [text |-> text, model |-> model, maxVocabSize |-> maxVocabSize,
                     steps |-> steps, result |-> result] >>
  /\ \E in \in DetInputs :
       /\ text' = in.text
       /\ model' = in.model
       /\ maxVocabSize' = in.maxVocabSize
  /\ pc' = "start"
  /\ UNCHANGED <<uniqueChars, maxIterations, iter, currentTokens, currentVocabulary,
                 mergingRules, steps, result>>
  /\ UNCHANGED playback

InitDet == InitWith(DetInputs)

NextDet == Next \/ Recompute

SpecDet == InitDet /\ [][NextDet]_vars

---------------------------------------------------------------------------
(* The component around computeBPE: text box, model cards, vocabulary      *)
(* slider, step slider, animation and reset.  A render calls computeBPE    *)
(* (useMemo) when the text, the vocabulary size or the model has changed,  *)
(* and the call runs to its end within the render: pc = "start" marks a    *)
(* render that is due, pc = "done" a rendered component; handlers and      *)
(* timers run on a rendered component only.                                *)

MaxTimers == 2

\* useState("attention is all you need transformer architecture")
DefaultText ==
  <<"a", "t", "t", "e", "n", "t", "i", "o", "n", " ", "i", "s", " ", "a", "l", "l", " ",
    "y", "o", "u", " ", "n", "e", "e", "d", " ", "t", "r", "a", "n", "s", "f", "o", "r",
    "m", "e", "r", " ", "a", "r", "c", "h", "i", "t", "e", "c", "t", "u", "r", "e">>

\* the texts typed into the text box, with trajectories of 1, 2 and 4 steps
UITexts ==
  { <<>>,
    <<"a", "a", "a", "a">>,
    <<"a", "b", "a", "b", " ", "a", "b", "a", "b">> }

\* positions of the vocabulary slider (min 100, max 10000, step 100)
UIVocabSizes == {100, 1000}

InitUI ==
  InitWith({[text |-> DefaultText, model |-> ModelNamed(NameCustom), maxVocabSize |-> 1000]})

\* the locals of computeBPE when its loop is entered
InitialLocals(t, budget, m) ==
  Only({Only({[uniqueChars |-> UniqueChars(tokens),
               maxIterations |-> MaxIterations(budget, vocabulary),
               iter |-> 1,
               currentTokens |-> tokens,
               currentVocabulary |-> vocabulary,
               mergingRules |-> InitialRules,
               steps |-> << [iteration |-> 0,
                             mostFrequentPair |-> <<>>,
                             frequency |-> 0,
                             vocabulary |-> vocabulary,
                             mergedTokens |-> tokens,
                             compressionRatio |-> Ratio(t, tokens),
                             mergingRules |-> InitialRules,
                             pairFrequencies |-> <<>>] >>] :
                vocabulary \in {InitialVocabulary(tokens, m)}}) :
          tokens \in {InitialTokens(t, m)}})

\* the locals after one more iteration that merges the selected pair
Iteration(t, m, l, sel) ==
  Only({Only({[l EXCEPT
                 !.iter = NextIteration(l.iter),
                 !.currentTokens = MergeTokens(l.currentTokens, sel.mostFrequentPair, newToken),
                 !.currentVocabulary = PushToken(l.currentVocabulary, newToken),
                 !.mergingRules = newRules,
                 !.steps =
                   PushStep(l.steps,
                            [iteration |-> l.iter,
                             mostFrequentPair |-> sel.mostFrequentPair,
                             frequency |-> sel.maxFreq,
                             vocabulary |-> PushToken(l.currentVocabulary, newToken),
                             mergedTokens |->
                               MergeTokens(l.currentTokens, sel.mostFrequentPair, newToken),
                             compressionRatio |->
                               Ratio(t, MergeTokens(l.currentTokens, sel.mostFrequentPair,
                                                    newToken)),
                             mergingRules |-> newRules,
                             pairFrequencies |-> PairCounts(l.currentTokens)])] :
                newRules \in {PushRule(l.mergingRules, sel.mostFrequentPair, newToken)}}) :
          newToken \in {NewToken(sel.mostFrequentPair, m)}})

\* the for loop, from the locals l to the locals it ends with
RECURSIVE RunLoop(_, _, _, _)
RunLoop(t, budget, m, l) ==
  IF ~(l.iter <= l.maxIterations /\ Len(l.currentVocabulary) < budget) THEN l
  ELSE IF PairCounts(l.currentTokens) = <<>> THEN l
  ELSE Only({IF TooRare(sel) THEN l
             ELSE Only({RunLoop(t, budget, m, next) : next \in {Iteration(t, m, l, sel)}}) :
               sel \in {MostFrequent(l.currentTokens)}})

\* the object computeBPE returns, less its steps
FinalResult(t, budget, l) ==
  Only({[finalTokens |-> last.mergedTokens,
         finalVocabulary |-> last.vocabulary,
         statistics |->
           [totalMerges |-> Len(l.steps) - 1,
            finalCompressionRatio |-> Ratio(t, last.mergedTokens),
            uniqueChars |-> Len(l.uniqueChars),
            averageTokenLength |-> <<SumLen(last.mergedTokens), Len(last.mergedTokens)>>,
            vocabularyEfficiency |-> <<Len(last.vocabulary), budget>>]] :
          last \in {l.steps[Len(l.steps)]}})

\* the render: useMemo calls computeBPE(inputText, vocabSize, currentModel)
Render ==
  /\ pc = "start"
  /\ \E l \in {RunLoop(text, maxVocabSize, model,
                        InitialLocals(text, maxVocabSize, model))} :
       /\ uniqueChars' = l.uniqueChars
       /\ maxIterations' = l.maxIterations
       /\ iter' = l.iter
       /\ currentTokens' = l.currentTokens
       /\ currentVocabulary' = l.currentVocabulary
       /\ mergingRules' = l.mergingRules
       /\ steps' = l.steps
       /\ result' = <<FinalResult(text, maxVocabSize, l)>>
  /\ pc' = "done"
  /\ UNCHANGED <<text, maxVocabSize, model, previous, playback>>

\* the component is rendered and its effects have run
Idle == pc = "done" /\ ~effectPending

\* the locals of the computeBPE call that the next render makes
Rerender ==
  /\ pc' = "start"
  /\ UNCHANGED <<uniqueChars, maxIterations, iter, currentTokens, currentVocabulary,
                 mergingRules, steps, result, previous>>

\* onChange of the text box: setInputText(e.target.value)
EditText ==
  /\ Idle
  /\ \E t \in UITexts \ {text} : text' = t
  /\ Rerender
  /\ UNCHANGED <<maxVocabSize, model, playback>>

\* onClick of a model card: setSelectedModel(model.name)
SelectModel ==
  /\ Idle
  /\ \E m \in Models \ {model} : model' = m
  /\ effectPending' = TRUE
  /\ Rerender
  /\ UNCHANGED <<text, maxVocabSize, currentStep, isAnimating, timers>>

\* the effect on [selectedModel, currentModel.vocabSize]
ModelEffect ==
  /\ pc = "done"
  /\ effectPending
  /\ effectPending' = FALSE
  /\ IF model.name # NameCustom /\ maxVocabSize # model.vocabSize
     THEN /\ maxVocabSize' = model.vocabSize
          /\ Rerender
     ELSE UNCHANGED <<maxVocabSize, pc, uniqueChars, maxIterations, iter, currentTokens,
                      currentVocabulary, mergingRules, steps, result, previous>>
  /\ UNCHANGED <<text, model, currentStep, isAnimating, timers>>

\* onChange of the vocabulary slider, shown for Custom only
ChangeVocabSize ==
  /\ Idle
  /\ model.name = NameCustom
  /\ \E v \in UIVocabSizes \ {maxVocabSize} : maxVocabSize' = v
  /\ Rerender
  /\ UNCHANGED <<text, model, playback>>

\* onChange of the step slider (min 0, max steps.length - 1), disabled while animating
MoveSlider ==
  /\ Idle
  /\ ~isAnimating
  /\ \E n \in 0..(Len(steps) - 1) : currentStep' = n
  /\ UNCHANGED <<text, maxVocabSize, model, pc, uniqueChars, maxIterations, iter,
                 currentTokens, currentVocabulary, mergingRules, steps, result, previous,
                 isAnimating, timers, effectPending>>

\* a timer of animate, started for the step it will show, with the number of
\* steps of the trajectory its closure holds
Timer(id, step, total) == [id |-> id, step |-> step, total |-> total]

\* animate(step): a timer for the next step, or the end of the animation
Animate(id, step, total, others) ==
  IF step < total - 1
  THEN /\ timers' = others \cup {Timer(id, step + 1, total)}
       /\ isAnimating' = TRUE
  ELSE /\ timers' = others
       /\ isAnimating' = FALSE

\* handleAnimate, the button being disabled while animating
HandleAnimate ==
  /\ Idle
  /\ ~isAnimating
  /\ \E id \in 1..MaxTimers :
       /\ \A tm \in timers : tm.id # id
       /\ Animate(id, 0, Len(steps), timers)
  /\ currentStep' = 0
  /\ UNCHANGED <<text, maxVocabSize, model, pc, uniqueChars, maxIterations, iter,
                 currentTokens, currentVocabulary, mergingRules, steps, result, previous,
                 effectPending>>

\* the callback of setTimeout: setCurrentStep(step + 1); animate(step + 1)
TimerFires ==
  /\ Idle
  /\ \E tm \in timers :
       /\ currentStep' = tm.step
       /\ Animate(tm.id, tm.step, tm.total, timers \ {tm})
  /\ UNCHANGED <<text, maxVocabSize, model, pc, uniqueChars, maxIterations, iter,
                 currentTokens, currentVocabulary, mergingRules, steps, result, previous,
                 effectPending>>

\* handleReset: the timers are left running
HandleReset ==
  /\ currentStep' = 0
  /\ isAnimating' = FALSE
  /\ UNCHANGED <<timers, effectPending>>

\* onClick of the reset button, disabled while animating
Reset ==
  /\ Idle
  /\ ~isAnimating
  /\ HandleReset
  /\ UNCHANGED <<text, maxVocabSize, model, pc, uniqueChars, maxIterations, iter,
                 currentTokens, currentVocabulary, mergingRules, steps, result, previous>>

\* handleSampleSelect(sampleText)
HandleSampleSelect ==
  /\ Idle
  /\ \E sampleText \in UITexts \ {text} : text' = sampleText
  /\ HandleReset
  /\ Rerender
  /\ UNCHANGED <<maxVocabSize, model>>

NextUI ==
  \/ Render
  \/ EditText
  \/ SelectModel
  \/ ModelEffect
  \/ ChangeVocabSize
  \/ MoveSlider
  \/ HandleAnimate
  \/ TimerFires
  \/ Reset
  \/ HandleSampleSelect

SpecUI == InitUI /\ [][NextUI]_vars


---------------------------------------------------------------------------
(* Vocabulary of the properties                                            *)

Range(xs) == {xs[i] : i \in 1..Len(xs)}

Max(a, b) == IF a >= b THEN a ELSE b

\* the ordered adjacent pairs of a token list, as 2-tuples
PairsOf(tokens) == {<<tokens[i], tokens[i + 1]>> : i \in 1..(Len(tokens) - 1)}

\* the number of positions at which the pair p occurs
Occurrences(tokens, p) ==
  Cardinality({i \in 1..(Len(tokens) - 1) : tokens[i] = p[1] /\ tokens[i + 1] = p[2]})

\* the highest number of occurrences of any pair; 0 when there is no pair
MaxOccurrences(tokens) ==
  IF PairsOf(tokens) = {} THEN 0
  ELSE CHOOSE n \in {Occurrences(tokens, p) : p \in PairsOf(tokens)} :
         \A q \in PairsOf(tokens) : Occurrences(tokens, q) <= n

TiedAtMax(tokens) ==
  {p \in PairsOf(tokens) : Occurrences(tokens, p) = MaxOccurrences(tokens)}

ConcatLength(p) == Len(p[1]) + Len(p[2])

\* the number of merges of the trajectory built so far
Merges == Len(steps) - 1

SeedSize == Len(steps[1].vocabulary)

Finished == pc = "done"

---------------------------------------------------------------------------
(* The claims                                                              *)

\* C1: at every step k the vocabulary has (length of the step-0 vocabulary) + k
\* entries: every executed merge adds exactly one symbol, none is removed.
C1_VocabularyGrowsByOne ==
  \A k \in 1..Len(steps) :
    Len(steps[k].vocabulary) = Len(steps[1].vocabulary) + (k - 1)

C1_Witness == Finished /\ Merges >= 2

\* C2: the sequence of every step after step 0 is strictly shorter than the
\* sequence of the step before it, for every text.
C2_SequenceShrinks ==
  \A k \in 2..Len(steps) :
    Len(steps[k].mergedTokens) < Len(steps[k - 1].mergedTokens)

\* C3: every symbol of a step's sequence is an element of that step's
\* vocabulary, for every model.
C3_SequenceWithinVocabulary ==
  \A k \in 1..Len(steps) :
    Range(steps[k].mergedTokens) \subseteq Range(steps[k].vocabulary)

\* C4: no step's vocabulary holds the same symbol twice.  (Stated for the texts
\* without the character of the counting key's separator, where every chosen
\* pair is parsed back as it was counted.)
C4_NoDuplicateSymbols ==
  \A k \in 1..Len(steps) :
    "|" \notin Range(text) =>
    \A i, j \in 1..Len(steps[k].vocabulary) :
      i # j => steps[k].vocabulary[i] # steps[k].vocabulary[j]

\* C5: when several pairs of the previous sequence are tied at the maximum
\* number of occurrences, the pair chosen has the smallest concatenated length
\* of the tied pairs.  (Stated for the steps whose chosen pair does occur in
\* the previous sequence, which sets the parsing of the counting key aside.)
C5_ShortestTiedPairChosen ==
  \A k \in 2..Len(steps) :
    LET before == steps[k - 1].mergedTokens
        chosen == steps[k].mostFrequentPair
    IN  (Cardinality(TiedAtMax(before)) > 1 /\ chosen \in PairsOf(before))
          => /\ chosen \in TiedAtMax(before)
             /\ \A q \in TiedAtMax(before) : ConcatLength(chosen) <= ConcatLength(q)

\* C6: every step after step 0 records a frequency of at least 2; no step is
\* appended when no pair of the sequence occurs twice; and a pair that is
\* actually replaced occurred at least twice.
C6_FrequencyFloor ==
  \A k \in 2..Len(steps) :
    /\ steps[k].frequency >= 2
    /\ MaxOccurrences(steps[k - 1].mergedTokens) >= 2
    /\ steps[k].mergedTokens # steps[k - 1].mergedTokens
         => Occurrences(steps[k - 1].mergedTokens, steps[k].mostFrequentPair) >= 2

\* the loop has just halted, after a merge, on a sequence whose pairs all occur once
C6_Witness ==
  /\ pc = "return"
  /\ Merges >= 1
  /\ LoopCondition
  /\ MaxOccurrences(currentTokens) = 1

\* C7: for a text without words no trajectory is produced: no step is ever
\* recorded and nothing is returned.
C7_EmptyInputProducesNothing ==
  Words(text, model) = <<>> => (steps = <<>> /\ result = NoResult)

\* C8: a call whose arguments equal those of the call before it returns the
\* same trajectory and the same result.
C8_Deterministic ==
  (/\ Finished
   /\ previous # NoCall
   /\ previous[1].text = text
   /\ previous[1].model = model
   /\ previous[1].maxVocabSize = maxVocabSize)
    => (previous[1].steps = steps /\ previous[1].result = result)

C8_Witness ==
  /\ Finished
  /\ previous # NoCall
  /\ previous[1].text = text
  /\ previous[1].model = model
  /\ previous[1].maxVocabSize = maxVocabSize
  /\ Merges >= 2

\* C9 as stated: the number of merges never exceeds
\* min(maxVocabSize - initial vocabulary length, 100).
C9_MergesWithinBudgetAsStated ==
  steps # <<>> => Merges <= Min(maxVocabSize - SeedSize, 100)

\* C9 amended: the number of merges never exceeds
\* max(0, min(maxVocabSize - initial vocabulary length, 100)), hence never more than 100;
\* and when the initial vocabulary fits maxVocabSize, so does every step's.
C9_MergesWithinBudget ==
  steps # <<>> =>
    /\ Merges <= Max(0, Min(maxVocabSize - SeedSize, 100))
    /\ Merges <= 100
    /\ SeedSize <= maxVocabSize
         => \A k \in 1..Len(steps) : Len(steps[k].vocabulary) <= maxVocabSize

\* the cap of 100 iterations is what ended the loop
C9_Witness == Finished /\ Merges = 100 /\ maxVocabSize - SeedSize > 100

\* C10: when maxVocabSize is at most the size of the seed vocabulary, the
\* trajectory never has more than step 0, and the call returns zero merges.
C10_NoMergeWithoutBudget ==
  (steps # <<>> /\ maxVocabSize <= SeedSize) =>
    /\ Len(steps) = 1
    /\ steps[1].iteration = 0
    /\ steps[1].mostFrequentPair = <<>>
    /\ Finished => result[1].statistics.totalMerges = 0

\* such a call has returned, on a text that has a pair occurring twice
C10_Witness ==
  /\ Finished
  /\ maxVocabSize <= SeedSize
  /\ MaxOccurrences(steps[1].mergedTokens) >= 2

\* the documented example: "low lower newest widest", Custom, maxVocabSize 20
IsExampleCall ==
  /\ text = <<"l", "o", "w", " ", "l", "o", "w", "e", "r", " ", "n", "e", "w", "e",
              "s", "t", " ", "w", "i", "d", "e", "s", "t">>
  /\ model.name = NameCustom
  /\ maxVocabSize = 20

\* C11: once the call has started, the trajectory has a step 0 whose iteration
\* is 0, whose pair is null, whose frequency is 0, whose rule list is empty and
\* whose sequence and vocabulary are the preprocessor's initial sequence and
\* seed vocabulary; and the step at index k has iteration k.
C11_StepZeroAndIterationIndex ==
  pc # "start" =>
    /\ steps # <<>>
    /\ steps[1].iteration = 0
    /\ steps[1].mostFrequentPair = <<>>
    /\ steps[1].frequency = 0
    /\ steps[1].mergingRules = <<>>
    /\ steps[1].mergedTokens = InitialTokens(text, model)
    /\ steps[1].vocabulary = InitialVocabulary(InitialTokens(text, model), model)
    /\ \A k \in 1..Len(steps) : steps[k].iteration = k - 1

C11_Witness == Finished /\ Merges >= 3 /\ steps[4].iteration = 3

\* C12: the rule list of step k has k entries, and it is the rule list of step
\* k-1 followed by one rule whose pair is step k's chosen pair and whose new
\* token is the last symbol of step k's vocabulary.
C12_RulesInApplicationOrder ==
  \A k \in 1..Len(steps) :
    /\ Len(steps[k].mergingRules) = k - 1
    /\ k >= 2 =>
         steps[k].mergingRules =
           Append(steps[k - 1].mergingRules,
                  [pair |-> steps[k].mostFrequentPair,
                   newToken |-> steps[k].vocabulary[Len(steps[k].vocabulary)]])

\* two rules have been recorded, and they differ
C12_Witness ==
  /\ Finished
  /\ Merges >= 2
  /\ steps[3].mergingRules[1] # steps[3].mergingRules[2]

\* C13: for the documented example, step 0 has a sequence of 24 symbols (one
\* per character plus one end-of-word marker per word: 4 + 6 + 7 + 7) and a
\* seed vocabulary of exactly the 11 symbols l, o, w, e, r, n, s, t, i, d and
\* the end-of-word marker.
C13_ExampleStepZero ==
  (IsExampleCall /\ steps # <<>>) =>
    /\ steps[1].mergedTokens =
         << <<"l">>, <<"o">>, <<"w">>, EndOfWord,
            <<"l">>, <<"o">>, <<"w">>, <<"e">>, <<"r">>, EndOfWord,
            <<"n">>, <<"e">>, <<"w">>, <<"e">>, <<"s">>, <<"t">>, EndOfWord,
            <<"w">>, <<"i">>, <<"d">>, <<"e">>, <<"s">>, <<"t">>, EndOfWord >>
    /\ Len(steps[1].mergedTokens) = 24
    /\ Len(steps[1].vocabulary) = 11
    /\ Range(steps[1].vocabulary) =
         { <<"l">>, <<"o">>, <<"w">>, <<"e">>, <<"r">>, <<"n">>, <<"s">>, <<"t">>,
           <<"i">>, <<"d">>, EndOfWord }

C13_Witness == IsExampleCall /\ pc = "loop" /\ iter = 1

\* C14 as stated: for the documented example, the first merge has a frequency
\* of at least 2 and its chosen pair is (s,t) or (e,s).
C14_ExampleFirstMergeAsStated ==
  (IsExampleCall /\ Len(steps) >= 2) =>
    /\ steps[2].frequency >= 2
    /\ steps[2].mostFrequentPair \in { << <<"s">>, <<"t">> >>, << <<"e">>, <<"s">> >> }

\* C14 amended: for the documented example, the first merge has frequency 2
\* and its chosen pair is (l,o), the first of the pairs that occur twice.
C14_ExampleFirstMerge ==
  (IsExampleCall /\ Len(steps) >= 2) =>
    /\ steps[2].frequency = 2
    /\ steps[2].mostFrequentPair = << <<"l">>, <<"o">> >>

\* the example's first merge has been made; (s,t) and (e,s) occurred as often
\* as the chosen pair
C14_Witness ==
  /\ IsExampleCall
  /\ Len(steps) >= 2
  /\ Occurrences(steps[1].mergedTokens, << <<"s">>, <<"t">> >>) = steps[2].frequency
  /\ Occurrences(steps[1].mergedTokens, << <<"e">>, <<"s">> >>) = steps[2].frequency

\* C15: for every text, model and maxVocabSize the call comes to its return,
\* with the trajectory built so far: whichever way the loop ends (no pair
\* left, highest count below 2, vocabulary at maxVocabSize, iteration cap),
\* nothing throws on the way.
C15_TerminatesNormally ==
  <>(/\ Finished
     /\ result # NoResult
     /\ result[1].statistics.totalMerges = Merges
     /\ result[1].finalTokens = steps[Len(steps)].mergedTokens
     /\ result[1].finalVocabulary = steps[Len(steps)].vocabulary)

\* a call has returned whose loop ended on the vocabulary reaching maxVocabSize
C15_Witness ==
  /\ Finished
  /\ result # NoResult
  /\ Merges >= 1
  /\ Len(currentVocabulary) = maxVocabSize
  /\ ~LoopCondition

\* C16: a step, once appended, is never changed by a later iteration: every
\* step of the trajectory is, after any step of the call, what it was before.
C16_StepsImmutable ==
  [][\A j \in 1..Len(steps) : Len(steps') >= j /\ steps'[j] = steps[j]]_vars

\* three steps have been appended, the later ones on a vocabulary and a rule
\* list that kept growing
C16_Witness ==
  /\ Len(steps) >= 3
  /\ steps[2].vocabulary # steps[3].vocabulary
  /\ steps[2].mergingRules # steps[3].mergingRules
  /\ steps[1].vocabulary # steps[2].vocabulary

SpecialTokens == Range(model.specialTokens)

\* C17: the vocabulary of step 0 is the list of the distinct symbols of the
\* initial sequence, in first-seen order, followed by the model's special
\* tokens in their declared order (a symbol that is itself a special token
\* being listed once, with the special tokens); and every special token is in
\* the vocabulary of every step.
C17_SeedVocabulary ==
  steps # <<>> =>
    /\ steps[1].vocabulary =
         Distinct(SelectSeq(steps[1].mergedTokens, LAMBDA tk : tk \notin SpecialTokens), {})
           \o model.specialTokens
    /\ \A k \in 1..Len(steps) : SpecialTokens \subseteq Range(steps[k].vocabulary)

\* C18 as stated: for every model, a special token of the model is a symbol of
\* the step-0 sequence only if the text contains that token.
C18_NoSpecialTokenInSequenceAsStated ==
  steps # <<>> =>
    \A sp \in SpecialTokens :
      sp \in Range(steps[1].mergedTokens) => Includes(text, sp)

\* C18 amended: for every model other than Custom, a special token of the
\* model is a symbol of the step-0 sequence only if the text contains that
\* token; for Custom, whose only special token is the end-of-word marker, that
\* marker ends the step-0 sequence of every text that has a word.
C18_NoSpecialTokenInSequence ==
  steps # <<>> =>
    LET initial == steps[1].mergedTokens
    IN  IF model.name = NameCustom
        THEN /\ model.specialTokens = <<EndOfWord>>
             /\ initial # <<>> => initial[Len(initial)] = EndOfWord
        ELSE \A sp \in SpecialTokens : sp \in Range(initial) => Includes(text, sp)

\* the text of a call to a model other than Custom spells one of the model's
\* special tokens
C18_Witness ==
  /\ steps # <<>>
  /\ model.name # NameCustom
  /\ \E sp \in SpecialTokens : Includes(text, sp)

\* C19: for T5/SentencePiece and LLaMA, every run of whitespace becomes one
\* separator symbol and the text is then split into one symbol per character:
\* the step-0 sequence has no end-of-word marker and no symbol carrying the
\* continuation marker.
C19_SentencePieceUnmarked ==
  (steps # <<>> /\ (IsT5(model) \/ IsLLaMA(model))) =>
    /\ \A i \in 1..Len(steps[1].mergedTokens) :
         /\ Len(steps[1].mergedTokens[i]) = 1
         /\ steps[1].mergedTokens[i] # EndOfWord
         /\ ~StartsWith(steps[1].mergedTokens[i], Continuation)
    /\ Flatten(steps[1].mergedTokens) = ProcessedText(text, model)

\* the characters of \w, and those of \w without the underscore
WordChars == Range(UpperCase) \cup Range(LowerCase) \cup Digits \cup {"_"}
Alphanumerics == WordChars \ {"_"}

\* the 1-based positions of s whose character is one of chars, in order
PositionsOf(s, chars) ==
  LET hits == {i \in 1..Len(s) : s[i] \in chars}
  IN  [j \in 1..Cardinality(hits) |->
         CHOOSE i \in hits : Cardinality({h \in hits : h < i}) = j - 1]

\* the symbol of a character: bare at the start of a word, marked inside one
BertSymbol(c, inside) == IF inside THEN Continuation \o <<c>> ELSE <<c>>

\* C20 as stated: for BERT the symbols of step 0 are the lower-cased
\* alphanumeric characters of the text, in order; every other character that
\* is not whitespace is removed without ending the word, so a symbol is bare
\* exactly when it is the first of the text or whitespace lies between it and
\* the alphanumeric character before it.
C20_BertCleanupAsStated ==
  (steps # <<>> /\ IsBERT(model)) =>
    LET at == PositionsOf(text, Alphanumerics)
    IN  steps[1].mergedTokens =
          [j \in 1..Len(at) |->
             BertSymbol(LowerChar(text[at[j]]),
                        j > 1 /\ \A i \in (at[j - 1] + 1)..(at[j] - 1) : ~IsSpace(text[i]))]

\* C20 amended: for BERT the symbols of step 0 are the lower-cased word
\* characters (letters, digits, underscore) of the text, in order; every other
\* character is replaced by a space or is whitespace already, and so ends the
\* word: a symbol is bare exactly when it is the first of the text or the
\* character right before it in the text is not a word character.
C20_BertCleanup ==
  (steps # <<>> /\ IsBERT(model)) =>
    LET at == PositionsOf(text, WordChars)
    IN  /\ steps[1].mergedTokens =
             [j \in 1..Len(at) |->
                BertSymbol(LowerChar(text[at[j]]), j > 1 /\ at[j - 1] = at[j] - 1)]
        /\ \A j \in 1..Len(steps[1].mergedTokens) :
             LET tk == steps[1].mergedTokens[j]
                 c == tk[Len(tk)]
             IN  /\ tk \in {<<c>>, Continuation \o <<c>>}
                 /\ c \in Range(LowerCase) \cup Digits \cup {"_"}

\* a BERT call on a text with an upper-case letter, an underscore, and a
\* character that is neither a word character nor whitespace inside a word
C20_Witness ==
  /\ steps # <<>>
  /\ IsBERT(model)
  /\ \E i \in 1..Len(text) : text[i] \in Range(UpperCase)
  /\ "_" \in Range(text)
  /\ \E i \in 2..(Len(text) - 1) :
       /\ ~IsWordChar(text[i]) /\ ~IsSpace(text[i])
       /\ IsWordChar(text[i - 1]) /\ IsWordChar(text[i + 1])

\* the index of the first token of word w in the tokens of a word list, less one
RECURSIVE OffsetOf(_, _)
OffsetOf(words, w) == IF w = 1 THEN 0 ELSE OffsetOf(words, w - 1) + Len(words[w - 1])

\* C21: for BERT each word gives one symbol per character, in order: the first
\* character bare and every later character prefixed with '##', so a word of n
\* characters gives n symbols of which n-1 carry the marker.
C21_BertPrefixMarker ==
  (steps # <<>> /\ IsBERT(model)) =>
    LET words == Words(text, model)
        initial == steps[1].mergedTokens
    IN  /\ Len(initial) = SumLen(words)
        /\ \A w \in 1..Len(words) :
             /\ \A i \in 1..Len(words[w]) :
                  initial[OffsetOf(words, w) + i] =
                    IF i = 1 THEN <<words[w][i]>> ELSE Continuation \o <<words[w][i]>>
             /\ Cardinality({i \in 1..Len(words[w]) :
                               StartsWith(initial[OffsetOf(words, w) + i], Continuation)})
                  = Len(words[w]) - 1

\* a BERT call on two words, the second of several characters
C21_Witness ==
  /\ steps # <<>>
  /\ IsBERT(model)
  /\ Len(Words(text, model)) >= 2
  /\ Len(Words(text, model)[2]) >= 2

\* the positions of the characters of s that are not whitespace, in order
NonSpacePositions(s) ==
  LET hits == {i \in 1..Len(s) : ~IsSpace(s[i])}
  IN  [j \in 1..Cardinality(hits) |->
         CHOOSE i \in hits : Cardinality({h \in hits : h < i}) = j - 1]

\* the positions of s at which a word ends
WordEnds(s) ==
  {i \in 1..Len(s) : ~IsSpace(s[i]) /\ (i = Len(s) \/ IsSpace(s[i + 1]))}

\* C22: for GPT-2, GPT-4 and Custom the initial sequence is, for each
\* whitespace-separated word of the text in order, one symbol per character
\* followed by one end-of-word symbol; its length is the number of characters
\* that are not whitespace plus the number of words, empty words being dropped.
C22_SuffixMarker ==
  (steps # <<>> /\ model.name \in {NameGPT2, NameGPT4, NameCustom}) =>
    LET at == NonSpacePositions(text)
        initial == steps[1].mergedTokens
    IN  /\ initial =
             Flatten([j \in 1..Len(at) |->
                        IF at[j] \in WordEnds(text)
                        THEN << <<text[at[j]]>>, EndOfWord >>
                        ELSE << <<text[at[j]]>> >>])
        /\ Len(initial) = Len(at) + Cardinality(WordEnds(text))
        /\ Len(Words(text, model)) = Cardinality(WordEnds(text))

\* a suffix-marker call on a text with leading whitespace and a run of
\* whitespace between two words
C22_Witness ==
  /\ steps # <<>>
  /\ model.name \in {NameGPT2, NameGPT4, NameCustom}
  /\ Len(text) >= 5
  /\ IsSpace(text[1])
  /\ \E i \in 2..(Len(text) - 3) :
       ~IsSpace(text[i]) /\ IsSpace(text[i + 1]) /\ IsSpace(text[i + 2]) /\ ~IsSpace(text[i + 3])

\* C23: the pair chosen in a merge iteration has the highest number of
\* occurrences of all adjacent pairs of the sequence before it (overlapping
\* occurrences counted), and the frequency recorded in the step is that number.
C23_MostFrequentPairChosen ==
  \A k \in 2..Len(steps) :
    LET before == steps[k - 1].mergedTokens
    IN  /\ steps[k].frequency = Occurrences(before, steps[k].mostFrequentPair)
        /\ steps[k].frequency = MaxOccurrences(before)

\* C24: two different pairs never share a counter, and the pair recorded in a
\* step after step 0 occurs in the sequence of the step before it, also when a
\* symbol contains the character '|'.
C24_StructuralPairKey ==
  \A k \in 2..Len(steps) :
    LET before == steps[k - 1].mergedTokens
    IN  /\ Len(steps[k].pairFrequencies) = Cardinality(PairsOf(before))
        /\ steps[k].mostFrequentPair \in PairsOf(before)

\* the positions of tokens at which a replacement of pair starts when the
\* occurrences are taken greedily from the left
MergeStarts(tokens, pair) ==
  LET starts[i \in 0..(Len(tokens) - 1)] ==
        IF i = 0 THEN FALSE
        ELSE /\ tokens[i] = pair[1]
             /\ tokens[i + 1] = pair[2]
             /\ ~starts[i - 1]
  IN  {i \in 1..(Len(tokens) - 1) : starts[i]}

\* the sequence a merge of pair into newToken leaves: the tokens that are not
\* the second of a replaced occurrence, the first of one becoming newToken
MergedSequence(tokens, pair, newToken) ==
  LET starts == MergeStarts(tokens, pair)
      kept == {i \in 1..Len(tokens) : (i - 1) \notin starts}
  IN  [j \in 1..Cardinality(kept) |->
         LET i == CHOOSE h \in kept : Cardinality({g \in kept : g < h}) = j - 1
         IN  IF i \in starts THEN newToken ELSE tokens[i]]

\* C25: a merge replaces, from left to right, every occurrence of the chosen
\* pair that does not overlap one already replaced by the result symbol, and
\* copies every other symbol in order; merging (a,a) in a,a,a gives aa,a; and
\* no two adjacent symbols of the new sequence are the chosen pair.
C25_MergeApplication ==
  /\ MergeTokens(<< <<"a">>, <<"a">>, <<"a">> >>, << <<"a">>, <<"a">> >>, <<"a", "a">>)
       = << <<"a", "a">>, <<"a">> >>
  /\ \A k \in 2..Len(steps) :
       LET pair == steps[k].mostFrequentPair
           newToken == steps[k].vocabulary[Len(steps[k].vocabulary)]
       IN  /\ steps[k].mergedTokens =
                MergedSequence(steps[k - 1].mergedTokens, pair, newToken)
           /\ pair \notin PairsOf(steps[k].mergedTokens)

\* a pair of two equal symbols has been merged in a sequence where two of its
\* occurrences overlapped
C25_Witness ==
  /\ Len(steps) >= 2
  /\ steps[2].mostFrequentPair[1] = steps[2].mostFrequentPair[2]
  /\ \E i \in 1..(Len(steps[1].mergedTokens) - 2) :
       /\ steps[1].mergedTokens[i] = steps[2].mostFrequentPair[1]
       /\ steps[1].mergedTokens[i + 1] = steps[2].mostFrequentPair[1]
       /\ steps[1].mergedTokens[i + 2] = steps[2].mostFrequentPair[1]

\* C26: the result symbol of a merge is the left symbol followed by the right
\* symbol, except that for BERT a right symbol that carries the '##' marker
\* loses it first (c + ##a gives ca, ##a + ##t gives ##at).
C26_ResultSymbol ==
  /\ NewToken(<< <<"c">>, <<"#", "#", "a">> >>, ModelNamed(NameBERT)) = <<"c", "a">>
  /\ NewToken(<< <<"#", "#", "a">>, <<"#", "#", "t">> >>, ModelNamed(NameBERT))
       = <<"#", "#", "a", "t">>
  /\ \A k \in 2..Len(steps) :
       LET left == steps[k].mostFrequentPair[1]
           right == steps[k].mostFrequentPair[2]
           newToken == steps[k].mergingRules[k - 1].newToken
       IN  /\ newToken = steps[k].vocabulary[Len(steps[k].vocabulary)]
           /\ newToken =
                IF model.name = NameBERT /\ Len(right) >= 2 /\ SubSeq(right, 1, 2) = <<"#", "#">>
                THEN left \o SubSeq(right, 3, Len(right))
                ELSE left \o right

\* a BERT merge of two symbols that both carry the marker
C26_Witness ==
  /\ Len(steps) >= 2
  /\ model.name = NameBERT
  /\ StartsWith(steps[2].mostFrequentPair[1], Continuation)
  /\ StartsWith(steps[2].mostFrequentPair[2], Continuation)

\* the text of a symbol: for BERT without the '##' it starts with
SurfaceText(tk, m) ==
  IF m.name = NameBERT /\ Len(tk) >= 2 /\ SubSeq(tk, 1, 2) = <<"#", "#">>
  THEN SubSeq(tk, 3, Len(tk))
  ELSE tk

SurfaceOf(tokens, m) == Flatten([i \in 1..Len(tokens) |-> SurfaceText(tokens[i], m)])

\* C28: at every step the texts of the sequence's symbols, concatenated in
\* order, give the same string as those of step 0 (for BERT with the '##'
\* markers removed from both).
C28_MergingPreservesText ==
  \A k \in 1..Len(steps) :
    SurfaceOf(steps[k].mergedTokens, model) = SurfaceOf(steps[1].mergedTokens, model)

\* two merges have been made, the second on a symbol made by the first
C28_Witness ==
  /\ Len(steps) >= 3
  /\ steps[3].mergedTokens # steps[2].mergedTokens
  /\ steps[2].vocabulary[Len(steps[2].vocabulary)] \in
       {steps[3].mostFrequentPair[1], steps[3].mostFrequentPair[2]}

\* C29: from one step to the next the sequence gets shorter by at most the
\* recorded frequency, and by exactly the recorded frequency when the left and
\* the right symbol of the chosen pair differ.
C29_LengthDecrease ==
  \A k \in 2..Len(steps) :
    LET decrease == Len(steps[k - 1].mergedTokens) - Len(steps[k].mergedTokens)
    IN  /\ decrease <= steps[k].frequency
        /\ steps[k].mostFrequentPair[1] # steps[k].mostFrequentPair[2]
             => decrease = steps[k].frequency

\* C27: the statistics are read off the last step: totalMerges is the number
\* of steps less one, finalTokens and finalVocabulary are the last step's
\* sequence and vocabulary, vocabularyEfficiency is the final vocabulary's
\* length over maxVocabSize, finalCompressionRatio is the text's length over the
\* final sequence's length and equals the last step's compressionRatio; and
\* every step's compressionRatio is the text's length over its sequence's.
C27_StatisticsFromLastStep ==
  /\ \A k \in 1..Len(steps) :
       steps[k].compressionRatio = <<Len(text), Len(steps[k].mergedTokens)>>
  /\ Finished =>
       LET last == steps[Len(steps)]
           r == result[1]
       IN  /\ r.statistics.totalMerges = Len(steps) - 1
           /\ r.finalTokens = last.mergedTokens
           /\ r.finalVocabulary = last.vocabulary
           /\ r.statistics.vocabularyEfficiency = <<Len(last.vocabulary), maxVocabSize>>
           /\ r.statistics.finalCompressionRatio = <<Len(text), Len(last.mergedTokens)>>
           /\ r.statistics.finalCompressionRatio = last.compressionRatio

\* a call has returned after merges that shortened the sequence
C27_Witness ==
  /\ Finished
  /\ Merges >= 2
  /\ result[1].statistics.finalCompressionRatio # steps[1].compressionRatio
  /\ result[1].statistics.finalCompressionRatio # steps[2].compressionRatio

\* C30: whenever the component is rendered, the cursor currentStep is an index
\* of the current trajectory: 0 <= currentStep <= steps.length - 1.
C30_CursorWithinTrajectory ==
  pc = "done" => currentStep \in 0..(Len(steps) - 1)

============================================================================
